---- MODULE Spec2Model ----
(***************************************************************************)
(* Model of src/app.py: the Flask handler predict() of the exoplanet       *)
(* classifier, the label mapping map_to_main_category() and the artifacts  *)
(* loaded at start-up (model, scaler, label_encoder, CLASS_LABELS).        *)
(*                                                                         *)
(* Python strings that the code inspects (raw labels, category names,      *)
(* string-valued JSON fields) are sequences of one-character strings, so   *)
(* that upper(), strip(), `in` and float() are computed, not assumed.      *)
(* Probabilities are integers in units of 1/ProbUnits.                     *)
(***************************************************************************)
EXTENDS Integers, Sequences, FiniteSets, TLC

\* ------------------------------------------------------------------ bounds
\* Largest number of classes a loaded classifier / label encoder has.
MaxClasses == 4
\* A probability vector sums to ProbUnits units (1.0 = ProbUnits units).
ProbUnits == 2
\* Longest raw label, in tokens, handed to map_to_main_category in SpecLabel.
MaxTokens == 2

\* ------------------------------------------------------------ string values
KW_CONFIRMED == <<"C", "O", "N", "F", "I", "R", "M", "E", "D">>
KW_CANDIDATE == <<"C", "A", "N", "D", "I", "D", "A", "T", "E">>
KW_APC == <<"A", "P", "C">>
KW_CP == <<"C", "P">>
KW_KP == <<"K", "P">>
KW_FALSE == <<"F", "A", "L", "S", "E">>
KW_FA == <<"F", "A">>
KW_REFUTED == <<"R", "E", "F", "U", "T", "E", "D">>
KW_NOT == <<"N", "O", "T">>

ConfirmedPlanet == <<"C", "o", "n", "f", "i", "r", "m", "e", "d", " ", "P", "l", "a", "n", "e", "t">>
CandidatePlanet == <<"C", "a", "n", "d", "i", "d", "a", "t", "e", " ", "P", "l", "a", "n", "e", "t">>
FalsePositive == <<"F", "a", "l", "s", "e", " ", "P", "o", "s", "i", "t", "i", "v", "e", " ", "(", "N", "o", "t", " ", "a", " ", "P", "l", "a", "n", "e", "t", ")">>
Unknown == <<"U", "n", "k", "n", "o", "w", "n">>

\* Raw labels of the source domain that are not themselves keywords.
L_FALSE_POSITIVE == <<"F", "A", "L", "S", "E", " ", "P", "O", "S", "I", "T", "I", "V", "E">>
L_FP == <<"F", "P">>
L_PC == <<"P", "C">>
L_confirmed == <<"C", "o", "n", "f", "i", "r", "m", "e", "d">>
L_space == <<" ">>

LowerAlphabet == <<"a", "b", "c", "d", "e", "f", "g", "h", "i", "j", "k", "l", "m", "n", "o", "p", "q", "r", "s", "t", "u", "v", "w", "x", "y", "z">>
UpperAlphabet == <<"A", "B", "C", "D", "E", "F", "G", "H", "I", "J", "K", "L", "M", "N", "O", "P", "Q", "R", "S", "T", "U", "V", "W", "X", "Y", "Z">>
Digits == <<"0", "1", "2", "3", "4", "5", "6", "7", "8", "9">>

\* ------------------------------------------------------- str.upper / strip / in
\* str.upper() on one character.
UpperChar(c) ==
    IF \E i \in 1..Len(LowerAlphabet) : LowerAlphabet[i] = c
    THEN UpperAlphabet[CHOOSE i \in 1..Len(LowerAlphabet) : LowerAlphabet[i] = c]
    ELSE c

\* str.upper()
Upper(s) == [i \in 1..Len(s) |-> UpperChar(s[i])]

\* str.strip(): leading and trailing blanks removed.
Strip(s) ==
    LET nonblank == {i \in 1..Len(s) : s[i] # " "}
    IN  IF nonblank = {} THEN <<>>
        ELSE LET lo == CHOOSE i \in nonblank : \A j \in nonblank : i <= j
                 hi == CHOOSE i \in nonblank : \A j \in nonblank : j <= i
             IN  SubSeq(s, lo, hi)

\* Python's `keyword in text` on strings.
Contains(text, keyword) ==
    \E i \in 0..(Len(text) - Len(keyword)) :
        SubSeq(text, i + 1, i + Len(keyword)) = keyword

CandidateKeywords == {KW_CANDIDATE, KW_APC, KW_CP, KW_KP}
FalseKeywords == {KW_FALSE, KW_FA, KW_REFUTED, KW_NOT}

\* A plausible slip: the three rules tested in the opposite order.
map_to_main_category_reordered(label) ==
    LET label_upper == Strip(Upper(label))
    IN  IF \E k \in FalseKeywords : Contains(label_upper, k) THEN FalsePositive
        ELSE IF \E k \in CandidateKeywords : Contains(label_upper, k) THEN CandidatePlanet
        ELSE IF Contains(label_upper, KW_CONFIRMED) THEN ConfirmedPlanet
        ELSE label

\* map_to_main_category(label), src/app.py:35-57.
map_to_main_category(label) ==
    LET label_upper == Strip(Upper(label))
    IN  IF Contains(label_upper, KW_CONFIRMED) THEN ConfirmedPlanet
        ELSE IF \E k \in CandidateKeywords : Contains(label_upper, k) THEN CandidatePlanet
        ELSE IF \E k \in FalseKeywords : Contains(label_upper, k) THEN FalsePositive
        ELSE label

\* The three keys of grouped_confidence, src/app.py:194-198.
CoarseCategories == {ConfirmedPlanet, CandidatePlanet, FalsePositive}

\* ------------------------------------------------------------ JSON and float()
JNum(n) == [t |-> "number", n |-> n, s |-> <<>>]
JStr(s) == [t |-> "string", n |-> 0, s |-> s]
JNull == [t |-> "null", n |-> 0, s |-> <<>>]

DigitValue(c) == (CHOOSE i \in 1..Len(Digits) : Digits[i] = c) - 1
IsDigit(c) == \E i \in 1..Len(Digits) : Digits[i] = c

RECURSIVE DigitsValue(_)
DigitsValue(s) ==
    IF s = <<>> THEN 0
    ELSE 10 * DigitsValue(SubSeq(s, 1, Len(s) - 1)) + DigitValue(s[Len(s)])

\* float(x), as used at src/app.py:151-153: a number converts to itself, a
\* string is stripped and parsed (optional sign, then digits) or raises
\* ValueError, and None raises TypeError.
Float(v) ==
    IF v.t = "number" THEN [ok |-> TRUE, x |-> v.n, exc |-> "none"]
    ELSE IF v.t = "string" THEN
        LET txt == Strip(v.s)
            signed == txt # <<>> /\ txt[1] \in {"-", "+"}
            body == IF signed THEN Tail(txt) ELSE txt
        IN  IF body # <<>> /\ \A i \in 1..Len(body) : IsDigit(body[i])
            THEN [ok |-> TRUE,
                  x |-> IF signed /\ txt[1] = "-" THEN 0 - DigitsValue(body) ELSE DigitsValue(body),
                  exc |-> "none"]
            ELSE [ok |-> FALSE, x |-> 0, exc |-> "ValueError"]
    ELSE [ok |-> FALSE, x |-> 0, exc |-> "TypeError"]

\* ------------------------------------------------------------ request bodies
\* required_fields, src/app.py:145.
required_fields == <<"orbital_period", "transit_duration", "planetary_radius">>
RequiredSet == {required_fields[i] : i \in 1..Len(required_fields)}

\* Values a JSON field takes in the requests explored: zero, a positive
\* number, the strings "-5" and "abc", and null.
FieldValues == {JNum(0), JNum(2), JStr(<<"-", "5">>), JStr(<<"a", "b", "c">>), JNull}

\* JSON objects over the three required keys and one foreign key "note".
JsonObjects ==
    {o \in UNION {[K -> FieldValues] : K \in SUBSET (RequiredSet \cup {"note"})} :
        "note" \in DOMAIN o => o["note"] = JNull}

\* What request.get_json() has to work on: no JSON body at all, or an object.
NoBody == [kind |-> "absent", obj |-> <<>>]
Bodies == {NoBody} \cup {[kind |-> "object", obj |-> o] : o \in JsonObjects}

\* The Python value None for `data`.
DataNone == [kind |-> "none", obj |-> <<>>]

\* ------------------------------------------------------------ error messages
\* Messages are sequences of words.
MsgModelNotLoaded == <<"Model", "not", "loaded.", "Please", "ensure", "model.pkl", "exists.">>
MsgNoData == <<"No", "data", "provided">>
MsgMissing(field) == <<"Missing", "required", "field:", field>>
MsgOrbital == <<"Orbital", "period", "must", "be", "positive">>
MsgTransit == <<"Transit", "duration", "must", "be", "positive">>
MsgRadius == <<"Planetary", "radius", "must", "be", "positive">>
MsgInvalidInput == <<"Invalid", "input", "value:", "str(e)">>
MsgPredictionError == <<"Prediction", "error:", "str(e)">>
HasWord(msg, w) == \E i \in 1..Len(msg) : msg[i] = w

\* ------------------------------------------------------------ artifacts
ModelNone == [loaded |-> FALSE, n_classes |-> 0, predict_proba |-> FALSE]
EncoderNone == [loaded |-> FALSE, classes_ |-> <<>>]

\* Raw labels an encoder may have been fitted on, in sorted order.
LabelPool == <<KW_CANDIDATE, KW_CONFIRMED, KW_CP, L_FALSE_POSITIVE, L_FP>>

\* label_encoder.classes_ of n classes: a sorted, duplicate-free selection.
ClassLists(n) ==
    {[i \in 1..n |-> LabelPool[s[i]]] :
        s \in {q \in [1..n -> 1..Len(LabelPool)] : \A i, j \in 1..n : i < j => q[i] < q[j]}}

VARIABLES
    model,            \* the classifier loaded at start-up, or ModelNone
    scaler,           \* TRUE iff exoplanet_scaler.pkl was loaded
    label_encoder,    \* the label encoder loaded at start-up, or EncoderNone
    pc,               \* position of the handler predict()
    request,          \* the body of the request being handled
    data,             \* request.get_json()
    input,            \* orbital_period, transit_duration, planetary_radius
    features,         \* the feature row handed to the classifier
    prediction,       \* model.predict(features)[0]
    detailed_label,   \* label_encoder.inverse_transform([prediction])[0]
    prediction_label,
    confidence,
    response,         \* what predict() returned
    called,           \* the calls made while handling this request
    raised            \* the exception that left the try block, and its origin

vars == <<model, scaler, label_encoder, pc, request, data, input, features,
          prediction, detailed_label, prediction_label, confidence, response,
          called, raised>>

artifacts == <<model, scaler, label_encoder>>

\* CLASS_LABELS, src/app.py:78 (from the encoder) and 93-97 (the default).
CLASS_LABELS ==
    IF label_encoder.loaded
    THEN [i \in 0..(Len(label_encoder.classes_) - 1) |-> label_encoder.classes_[i + 1]]
    ELSE [i \in 0..2 |-> CASE i = 0 -> FalsePositive
                           [] i = 1 -> CandidatePlanet
                           [] i = 2 -> ConfirmedPlanet]

NoInput == [orbital_period |-> 0, transit_duration |-> 0, planetary_radius |-> 0]
NoFeatures == [row |-> NoInput, scaled |-> FALSE]
NoConfidence == [kind |-> "none", detailed |-> <<>>, grouped |-> <<>>]
NoResponse == [status |-> 0, error |-> <<>>, prediction |-> <<>>,
               input |-> NoInput, confidence |-> NoConfidence]
NoRaise == [by |-> "none", exc |-> "none"]

\* The handler's locals before a request.
Fresh ==
    /\ data = DataNone
    /\ input = NoInput
    /\ features = NoFeatures
    /\ prediction = 0
    /\ detailed_label = <<>>
    /\ prediction_label = <<>>
    /\ confidence = NoConfidence
    /\ response = NoResponse
    /\ called = {}
    /\ raised = NoRaise

\* Module import, src/app.py:19-32 and 74-97: each artifact is loaded or,
\* when its file is missing, left None. A loaded encoder has as many
\* classes as the loaded classifier.
Init ==
    /\ model \in {ModelNone} \cup
                 {[loaded |-> TRUE, n_classes |-> n, predict_proba |-> b] :
                     n \in 2..MaxClasses, b \in BOOLEAN}
    /\ scaler \in BOOLEAN
    /\ label_encoder \in {EncoderNone} \cup
         {[loaded |-> TRUE, classes_ |-> c] :
             c \in UNION {ClassLists(n) :
                     n \in IF model.loaded THEN {model.n_classes} ELSE 2..MaxClasses}}
    /\ pc = "idle"
    /\ request = NoBody
    /\ Fresh

\* jsonify({"error": msg}), status
ErrorResponse(status, msg) == [NoResponse EXCEPT !.status = status, !.error = msg]

\* The except clauses of predict(), src/app.py:231-234.
Handler(exc) ==
    IF exc = "ValueError"
    THEN ErrorResponse(400, MsgInvalidInput)
    ELSE ErrorResponse(500, MsgPredictionError)

\* A POST /predict arrives.
Receive(body) ==
    /\ pc = "idle"
    /\ pc' = "check_model"
    /\ request' = body
    /\ UNCHANGED <<artifacts, data, input, features, prediction, detailed_label,
                   prediction_label, confidence, response, called, raised>>

\* A plausible slip: the model check left out of the handler's start.
CheckModel_unchecked ==
    /\ pc = "check_model"
    /\ pc' = "get_json"
    /\ UNCHANGED <<artifacts, request, data, input, features, prediction, response,
                   detailed_label, prediction_label, confidence, called, raised>>

\* src/app.py:133-136.
CheckModel ==
    /\ pc = "check_model"
    /\ IF ~model.loaded
       THEN /\ response' = ErrorResponse(500, MsgModelNotLoaded)
            /\ pc' = "done"
       ELSE /\ pc' = "get_json"
            /\ UNCHANGED response
    /\ UNCHANGED <<artifacts, request, data, input, features, prediction,
                   detailed_label, prediction_label, confidence, called, raised>>

\* What a call into a loaded artifact may do: return, or raise.
CapabilityOutcomes == {"ok", "ValueError", "RuntimeError"}

\* An exception leaves the try block: the matching except clause answers.
Raise(by, exc) ==
    /\ raised' = [by |-> by, exc |-> exc]
    /\ response' = Handler(exc)
    /\ pc' = "done"

\* src/app.py:139-143. Without a JSON body get_json() returns None or
\* raises an HTTPException, depending on the Flask release.
GetJson ==
    /\ pc = "get_json"
    /\ called' = called \cup {"get_json"}
    /\ \/ /\ request.kind = "absent"
          /\ data' = DataNone
          /\ response' = ErrorResponse(400, MsgNoData)
          /\ pc' = "done"
          /\ UNCHANGED raised
       \/ /\ request.kind = "absent"
          /\ Raise("get_json", "HTTPException")
          /\ UNCHANGED data
       \/ /\ request.kind = "object"
          /\ data' = request
          /\ IF DOMAIN request.obj = {}
             THEN /\ response' = ErrorResponse(400, MsgNoData)
                  /\ pc' = "done"
             ELSE /\ pc' = "check_fields"
                  /\ UNCHANGED response
          /\ UNCHANGED raised
    /\ UNCHANGED <<artifacts, request, input, features, prediction,
                   detailed_label, prediction_label, confidence>>

\* A plausible slip: the fields are looked for in the reverse order.
FirstMissing_reversed(obj) ==
    LET missing == {i \in 1..Len(required_fields) : required_fields[i] \notin DOMAIN obj}
    IN  IF missing = {} THEN 0
        ELSE CHOOSE i \in missing : \A j \in missing : j <= i

\* The loop of src/app.py:146-148: the index of the first required field
\* that is not in data, 0 when none is missing.
FirstMissing(obj) ==
    LET missing == {i \in 1..Len(required_fields) : required_fields[i] \notin DOMAIN obj}
    IN  IF missing = {} THEN 0
        ELSE CHOOSE i \in missing : \A j \in missing : i <= j

\* src/app.py:145-148.
CheckFields ==
    /\ pc = "check_fields"
    /\ IF FirstMissing(data.obj) # 0
       THEN /\ response' = ErrorResponse(400, MsgMissing(required_fields[FirstMissing(data.obj)]))
            /\ pc' = "done"
       ELSE /\ pc' = "coerce"
            /\ UNCHANGED response
    /\ UNCHANGED <<artifacts, request, data, input, features, prediction,
                   detailed_label, prediction_label, confidence, called, raised>>

\* src/app.py:151-153: three float() calls in order; the first that raises
\* ends the try block.
Coerce ==
    /\ pc = "coerce"
    /\ LET f == [i \in 1..Len(required_fields) |-> Float(data.obj[required_fields[i]])]
           bad == {i \in 1..Len(required_fields) : ~f[i].ok}
       IN  IF bad # {}
           THEN /\ Raise("float", f[CHOOSE i \in bad : \A j \in bad : i <= j].exc)
                /\ UNCHANGED input
           ELSE /\ input' = [orbital_period |-> f[1].x,
                             transit_duration |-> f[2].x,
                             planetary_radius |-> f[3].x]
                /\ pc' = "check_ranges"
                /\ UNCHANGED <<response, raised>>
    /\ UNCHANGED <<artifacts, request, data, features, prediction,
                   detailed_label, prediction_label, confidence, called>>

\* A plausible slip: zero accepted.
NonPositive_strict(x) == x < 0

\* The comparison of src/app.py:156, 158, 160.
NonPositive(x) == x <= 0

\* src/app.py:156-161.
CheckRanges ==
    /\ pc = "check_ranges"
    /\ IF NonPositive(input.orbital_period)
       THEN response' = ErrorResponse(400, MsgOrbital) /\ pc' = "done"
       ELSE IF NonPositive(input.transit_duration)
       THEN response' = ErrorResponse(400, MsgTransit) /\ pc' = "done"
       ELSE IF NonPositive(input.planetary_radius)
       THEN response' = ErrorResponse(400, MsgRadius) /\ pc' = "done"
       ELSE pc' = "scale" /\ UNCHANGED response
    /\ UNCHANGED <<artifacts, request, data, input, features, prediction,
                   detailed_label, prediction_label, confidence, called, raised>>

\* src/app.py:164-168.
Scale ==
    /\ pc = "scale"
    /\ \/ /\ ~scaler
          /\ features' = [row |-> input, scaled |-> FALSE]
          /\ pc' = "predict"
          /\ UNCHANGED <<called, response, raised>>
       \/ /\ scaler
          /\ called' = called \cup {"scaler.transform"}
          /\ \/ /\ features' = [row |-> input, scaled |-> TRUE]
                /\ pc' = "predict"
                /\ UNCHANGED <<response, raised>>
             \/ /\ \E exc \in CapabilityOutcomes \ {"ok"} : Raise("scaler.transform", exc)
                /\ features' = [row |-> input, scaled |-> FALSE]
    /\ UNCHANGED <<artifacts, request, data, input, prediction,
                   detailed_label, prediction_label, confidence>>

\* src/app.py:171: the classifier returns one of its class indices.
Predict ==
    /\ pc = "predict"
    /\ called' = called \cup {"model.predict"}
    /\ \/ /\ \E idx \in 0..(model.n_classes - 1) : prediction' = idx
          /\ pc' = "decode"
          /\ UNCHANGED <<response, raised>>
       \/ /\ \E exc \in CapabilityOutcomes \ {"ok"} : Raise("model.predict", exc)
          /\ UNCHANGED prediction
    /\ UNCHANGED <<artifacts, request, data, input, features,
                   detailed_label, prediction_label, confidence>>

\* src/app.py:174-180.
Decode ==
    /\ pc = "decode"
    /\ \/ /\ label_encoder.loaded
          /\ called' = called \cup {"label_encoder.inverse_transform"}
          /\ \/ /\ detailed_label' = label_encoder.classes_[prediction + 1]
                /\ prediction_label' = map_to_main_category(detailed_label')
                /\ pc' = "proba"
                /\ UNCHANGED <<response, raised>>
             \/ /\ \E exc \in CapabilityOutcomes \ {"ok"} :
                      Raise("label_encoder.inverse_transform", exc)
                /\ UNCHANGED <<detailed_label, prediction_label>>
       \/ /\ ~label_encoder.loaded
          /\ prediction_label' = IF prediction \in DOMAIN CLASS_LABELS
                                 THEN CLASS_LABELS[prediction] ELSE Unknown
          /\ pc' = "proba"
          /\ UNCHANGED <<detailed_label, called, response, raised>>
    /\ UNCHANGED <<artifacts, request, data, input, features, prediction, confidence>>

\* ------------------------------------------------------------ confidence
RECURSIVE SeqSum(_)
SeqSum(s) == IF s = <<>> THEN 0 ELSE Head(s) + SeqSum(Tail(s))

\* model.predict_proba(features)[0]: one probability per class, summing to 1.
ProbabilityVectors(n) == {p \in [1..n -> 0..ProbUnits] : SeqSum(p) = ProbUnits}

\* A Python dict built from (keys[i], vals[i]) in order: a later pair with
\* the same key overwrites the earlier one.
DictOf(keys, vals) ==
    [k \in {keys[i] : i \in 1..Len(vals)} |->
        vals[CHOOSE i \in 1..Len(vals) :
                /\ keys[i] = k
                /\ \A j \in 1..Len(vals) : keys[j] = k => j <= i]]

\* A plausible slip: `=` written for `+=`.
Accumulate_assign(grouped, main_category, prob) ==
    [grouped EXCEPT ![main_category] = prob]

\* grouped_confidence[main_category] += prob, src/app.py:202.
Accumulate(grouped, main_category, prob) ==
    [grouped EXCEPT ![main_category] = @ + prob]

\* The loop of src/app.py:200-202 over detailed_confidence.items(), from the
\* i-th inserted key on. Subscripting grouped_confidence with a key it does
\* not hold raises KeyError.
RECURSIVE Aggregate(_, _, _, _)
Aggregate(grouped, detailed, keys, i) ==
    IF i > Len(keys) THEN [exc |-> "none", grouped |-> grouped]
    ELSE IF \E j \in 1..(i - 1) : keys[j] = keys[i]
    THEN Aggregate(grouped, detailed, keys, i + 1)
    ELSE LET main_category == map_to_main_category(keys[i])
         IN  IF main_category \notin DOMAIN grouped
             THEN [exc |-> "KeyError", grouped |-> grouped]
             ELSE Aggregate(Accumulate(grouped, main_category, detailed[keys[i]]),
                            detailed, keys, i + 1)

\* src/app.py:187-212, given the probabilities.
BuildConfidence(probabilities) ==
    IF label_encoder.loaded
    THEN LET keys == SubSeq(label_encoder.classes_, 1, Len(probabilities))
             detailed_confidence == DictOf(keys, probabilities)
             agg == Aggregate([c \in CoarseCategories |-> 0], detailed_confidence, keys, 1)
         IN  [exc |-> agg.exc,
              confidence |-> [kind |-> "nested",
                              detailed |-> detailed_confidence,
                              grouped |-> agg.grouped]]
    ELSE IF \E i \in 0..(Len(probabilities) - 1) : i \notin DOMAIN CLASS_LABELS
    THEN [exc |-> "KeyError", confidence |-> NoConfidence]
    ELSE [exc |-> "none",
          confidence |-> [kind |-> "flat",
                          detailed |-> <<>>,
                          grouped |-> DictOf([i \in 1..Len(probabilities) |-> CLASS_LABELS[i - 1]],
                                             probabilities)]]

\* src/app.py:183-214. A classifier without predict_proba raises
\* AttributeError, which the inner except turns into confidence = None.
Proba ==
    /\ pc = "proba"
    /\ \/ /\ ~model.predict_proba
          /\ confidence' = NoConfidence
          /\ pc' = "respond"
          /\ UNCHANGED <<called, response, raised>>
       \/ /\ model.predict_proba
          /\ called' = called \cup {"model.predict_proba"}
          /\ \/ \E probabilities \in ProbabilityVectors(model.n_classes) :
                   LET built == BuildConfidence(probabilities)
                   IN  IF built.exc # "none"
                       THEN /\ Raise("predict", built.exc)
                            /\ UNCHANGED confidence
                       ELSE /\ confidence' = built.confidence
                            /\ pc' = "respond"
                            /\ UNCHANGED <<response, raised>>
             \/ /\ \E exc \in CapabilityOutcomes \ {"ok"} : Raise("model.predict_proba", exc)
                /\ UNCHANGED confidence
    /\ UNCHANGED <<artifacts, request, data, input, features, prediction,
                   detailed_label, prediction_label>>

\* Python truth of `confidence`, src/app.py:226: None and {} are falsy.
Truthy(c) == c.kind # "none" /\ (c.kind = "flat" => DOMAIN c.grouped # {})

\* src/app.py:217-229.
Respond ==
    /\ pc = "respond"
    /\ response' = [status |-> 200,
                    error |-> <<>>,
                    prediction |-> prediction_label,
                    input |-> input,
                    confidence |-> IF Truthy(confidence) THEN confidence ELSE NoConfidence]
    /\ pc' = "done"
    /\ UNCHANGED <<artifacts, request, data, input, features, prediction,
                   detailed_label, prediction_label, confidence, called, raised>>

\* The response has been sent: the handler's frame is gone and the worker
\* waits for the next request.
Return ==
    /\ pc = "done"
    /\ pc' = "idle"
    /\ request' = NoBody
    /\ data' = DataNone
    /\ input' = NoInput
    /\ features' = NoFeatures
    /\ prediction' = 0
    /\ detailed_label' = <<>>
    /\ prediction_label' = <<>>
    /\ confidence' = NoConfidence
    /\ response' = NoResponse
    /\ called' = {}
    /\ raised' = NoRaise
    /\ UNCHANGED artifacts

Next ==
    \/ \E body \in Bodies : Receive(body)
    \/ Return
    \/ CheckModel
    \/ GetJson
    \/ CheckFields
    \/ Coerce
    \/ CheckRanges
    \/ Scale
    \/ Predict
    \/ Decode
    \/ Proba
    \/ Respond

Spec == Init /\ [][Next]_vars

\* ------------------------------------------------- map_to_main_category alone
\* Pieces raw labels are put together from: every keyword, a lower-case
\* spelling, two labels of the source domain that hold no keyword, a blank.
Tokens == <<KW_CONFIRMED, L_confirmed, KW_CANDIDATE, KW_APC, KW_CP, KW_KP,
            KW_FALSE, KW_FA, KW_REFUTED, KW_NOT, L_FP, L_PC, L_space>>

RECURSIVE Join(_)
Join(ts) == IF ts = <<>> THEN <<>> ELSE Tokens[Head(ts)] \o Join(Tail(ts))

\* The raw labels of at most MaxTokens tokens.
Labels == {Join(ts) : ts \in UNION {[1..k -> 1..Len(Tokens)] : k \in 1..MaxTokens}}

InitLabel ==
    /\ model = ModelNone
    /\ scaler = FALSE
    /\ label_encoder = EncoderNone
    /\ pc = "idle"
    /\ request = NoBody
    /\ Fresh

\* A call map_to_main_category(label), as made at src/app.py:177 and 201.
MapLabel(label) ==
    /\ pc = "idle"
    /\ detailed_label' = label
    /\ prediction_label' = map_to_main_category(label)
    /\ pc' = "mapped"
    /\ UNCHANGED <<artifacts, request, data, input, features, prediction,
                   confidence, response, called, raised>>

\* The caller is done with the result.
MapReturn ==
    /\ pc = "mapped"
    /\ detailed_label' = <<>>
    /\ prediction_label' = <<>>
    /\ pc' = "idle"
    /\ UNCHANGED <<artifacts, request, data, input, features, prediction,
                   confidence, response, called, raised>>

NextLabel ==
    \/ \E label \in Labels : MapLabel(label)
    \/ MapReturn

SpecLabel == InitLabel /\ [][NextLabel]_vars

\* ------------------------------------------------------------------ claims
Done == pc = "done"
ObjectBody == request.kind = "object"
AllPresent == ObjectBody /\ RequiredSet \subseteq DOMAIN request.obj
\* The three required fields hold strictly positive JSON numbers.
ValidBody ==
    /\ AllPresent
    /\ \A f \in RequiredSet : request.obj[f].t = "number" /\ request.obj[f].n > 0
\* An exception came out of a loaded artifact.
CapabilityCalls == {"scaler.transform", "model.predict",
                    "label_encoder.inverse_transform", "model.predict_proba"}
CapabilityFault == raised.by \in CapabilityCalls
\* The first required field the body lacks, in the order the claim gives.
FirstAbsentField ==
    IF "orbital_period" \notin DOMAIN request.obj THEN "orbital_period"
    ELSE IF "transit_duration" \notin DOMAIN request.obj THEN "transit_duration"
    ELSE "planetary_radius"

RECURSIVE SumOver(_, _)
SumOver(f, S) ==
    IF S = {} THEN 0
    ELSE LET x == CHOOSE y \in S : TRUE IN f[x] + SumOver(f, S \ {x})

\* C1: with no classifier loaded every POST /predict ends in HTTP 500 with
\* the message about the model, whatever the body, and the handler never
\* gets past the model check: nothing is parsed, validated, scaled or
\* inferred.
C1_ModelUnavailable ==
    ~model.loaded =>
        /\ pc \in {"idle", "check_model", "done"}
        /\ called = {}
        /\ data = DataNone /\ input = NoInput /\ features = NoFeatures
        /\ Done => /\ response.status = 500
                   /\ response.error = MsgModelNotLoaded
                   /\ HasWord(response.error, "Model")

\* C1 witness: a fully valid body answered 500 because no model is loaded.
C1_Witness ==
    /\ ~model.loaded /\ Done /\ ValidBody
    /\ response.status = 500

\* C2 as claimed: with a classifier loaded, a body with three strictly
\* positive numbers is answered 200 with a prediction that is one of the
\* three coarse categories, or the unchanged raw label on the fallback path,
\* for every class index and every configuration of the artifacts (as long
\* as the artifacts themselves do not raise).
C2_ValidInputSucceeds ==
    (model.loaded /\ Done /\ ValidBody /\ ~CapabilityFault) =>
        /\ response.status = 200
        /\ \/ response.prediction \in CoarseCategories
           \/ /\ label_encoder.loaded
              /\ response.prediction = detailed_label
              /\ map_to_main_category(detailed_label) \notin CoarseCategories

\* C3 as claimed: a body lacking a required field is answered 400 with a
\* message naming the first missing field, also when all three are missing.
C3_MissingFieldNamed ==
    (model.loaded /\ Done /\ ObjectBody /\ ~AllPresent) =>
        /\ response.status = 400
        /\ HasWord(response.error, FirstAbsentField)

\* C3 amended: a body lacking a required field is answered 400 before any
\* inference; the message names the first missing field when the object is
\* not empty, and is "No data provided" when the object is empty.
C3_MissingFieldOrNoData ==
    (model.loaded /\ Done /\ ObjectBody /\ ~AllPresent) =>
        /\ response.status = 400
        /\ called = {"get_json"}
        /\ IF DOMAIN request.obj = {}
           THEN response.error = MsgNoData
           ELSE response.error = MsgMissing(FirstAbsentField)

\* C3 witness: a non-empty object with all three fields missing is told that
\* orbital_period is missing.
C3_Witness ==
    /\ model.loaded /\ Done
    /\ DOMAIN request.obj = {"note"}
    /\ response.status = 400
    /\ response.error = MsgMissing("orbital_period")

\* C4: all three fields present and coercible, one coerced value <= 0:
\* HTTP 400, the message contains "positive", and neither the scaler nor the
\* classifier is invoked.
C4_NonPositiveRejected ==
    ( /\ model.loaded /\ Done /\ AllPresent
      /\ \A f \in RequiredSet : Float(request.obj[f]).ok
      /\ \E f \in RequiredSet : Float(request.obj[f]).x <= 0 ) =>
        /\ response.status = 400
        /\ HasWord(response.error, "positive")
        /\ called \cap CapabilityCalls = {}

\* C4 witness: a zero among otherwise positive values is rejected.
C4_Witness ==
    /\ model.loaded /\ Done /\ AllPresent
    /\ request.obj["orbital_period"] = JNum(2)
    /\ request.obj["transit_duration"] = JNum(0)
    /\ request.obj["planetary_radius"] = JNum(2)
    /\ response.status = 400
    /\ response.error = MsgTransit

\* C5 as claimed: all three fields present, one of them not coercible to a
\* float (a non-numeric string, null, ...): HTTP 400 with an error message,
\* never 500.
C5_InvalidTypeIs400 ==
    ( /\ model.loaded /\ Done /\ AllPresent
      /\ \E f \in RequiredSet : ~Float(request.obj[f]).ok ) =>
        /\ response.status = 400
        /\ response.error # <<>>

\* C6 as claimed: with a label encoder, probability support and a raw label
\* that matches no keyword group, the request still succeeds: grouped holds
\* exactly the three coarse buckets, each the sum of the labels mapped to
\* it, so the fallback label's mass is in none of them.
C6_FallbackMassDropped ==
    ( /\ model.loaded /\ model.predict_proba /\ label_encoder.loaded
      /\ \E i \in 1..Len(label_encoder.classes_) :
            map_to_main_category(label_encoder.classes_[i]) \notin CoarseCategories
      /\ Done /\ ValidBody /\ ~CapabilityFault ) =>
        /\ response.status = 200
        /\ response.confidence.kind = "nested"
        /\ DOMAIN response.confidence.grouped = CoarseCategories
        /\ \A c \in CoarseCategories :
              response.confidence.grouped[c] =
                  SumOver(response.confidence.detailed,
                          {l \in DOMAIN response.confidence.detailed :
                              map_to_main_category(l) = c})

\* C7: when no raw label of the detailed distribution takes the fallback
\* branch, every grouped bucket is the sum of the probabilities of the raw
\* labels mapped to it, and the buckets sum to what the detailed
\* distribution sums to, the whole unit.
C7_MassConserved ==
    ( /\ Done /\ response.status = 200
      /\ response.confidence.kind = "nested"
      /\ \A l \in DOMAIN response.confidence.detailed :
            map_to_main_category(l) \in CoarseCategories ) =>
        LET detailed == response.confidence.detailed
            grouped == response.confidence.grouped
        IN  /\ DOMAIN grouped = CoarseCategories
            /\ \A c \in CoarseCategories :
                  grouped[c] = SumOver(detailed,
                                       {l \in DOMAIN detailed : map_to_main_category(l) = c})
            /\ SumOver(grouped, CoarseCategories) = SumOver(detailed, DOMAIN detailed)
            /\ SumOver(grouped, CoarseCategories) = ProbUnits

\* C7 witness: two raw labels with non-zero probability were folded into
\* the same bucket.
C7_Witness ==
    /\ Done /\ response.status = 200
    /\ response.confidence.kind = "nested"
    /\ \E l1, l2 \in DOMAIN response.confidence.detailed :
          /\ l1 # l2
          /\ map_to_main_category(l1) = map_to_main_category(l2)
          /\ response.confidence.detailed[l1] > 0
          /\ response.confidence.detailed[l2] > 0
          /\ response.confidence.grouped[map_to_main_category(l1)] = ProbUnits

\* C8 as claimed: a missing scaler, label encoder or predict_proba is never
\* an error, whatever the number of classes; without a label encoder the
\* prediction and the confidence keys come from the static mapping. Stated
\* over the configurations in which no raw label takes the fallback branch.
C8_DegradedModeSucceeds ==
    ( /\ model.loaded /\ Done /\ ValidBody /\ ~CapabilityFault
      /\ \A i \in 1..Len(label_encoder.classes_) :
            map_to_main_category(label_encoder.classes_[i]) \in CoarseCategories ) =>
        /\ response.status = 200
        /\ ~label_encoder.loaded =>
              /\ response.prediction \in CoarseCategories
              /\ response.confidence.kind # "nested"
              /\ DOMAIN response.confidence.grouped \subseteq CoarseCategories

\* C9: map_to_main_category decides on the uppercased, trimmed label in
\* priority order: CONFIRMED, then the candidate keywords, then the
\* false-positive keywords, else the label comes back unchanged.
C9_PriorityOrder ==
    pc = "mapped" =>
        LET u == Strip(Upper(detailed_label))
            confirmed == Contains(u, KW_CONFIRMED)
            candidate == \E k \in {KW_CANDIDATE, KW_APC, KW_CP, KW_KP} : Contains(u, k)
            falsepos == \E k \in {KW_FALSE, KW_FA, KW_REFUTED, KW_NOT} : Contains(u, k)
        IN  /\ confirmed => prediction_label = ConfirmedPlanet
            /\ (~confirmed /\ candidate) => prediction_label = CandidatePlanet
            /\ (~confirmed /\ ~candidate /\ falsepos) => prediction_label = FalsePositive
            /\ (~confirmed /\ ~candidate /\ ~falsepos) => prediction_label = detailed_label

\* C9 witness: a label holding both CONFIRMED and FALSE came out as
\* Confirmed Planet.
C9_Witness ==
    /\ pc = "mapped"
    /\ Contains(Upper(detailed_label), KW_CONFIRMED)
    /\ Contains(Upper(detailed_label), KW_FALSE)
    /\ prediction_label = ConfirmedPlanet

\* C10 as claimed: a 400 is decided before the scaler or the classifier is
\* invoked, and a failure raised by the scaler, the classifier or the label
\* encoder is answered 500, never 400.
C10_ValidationAtBoundary ==
    Done =>
        /\ response.status = 400 => called \cap CapabilityCalls = {}
        /\ CapabilityFault => response.status = 500

====
